---- MODULE Spec2Model ----
(***************************************************************************)
(* Model of the face matching service of backend/index.js: the handler of  *)
(* POST /api/match-faces, detectFaceAndExtract, analyzeSimilarity and      *)
(* compareFeaturePoints.                                                   *)
(*                                                                         *)
(* Numbers are fixed point.  A descriptor coordinate and a descriptor      *)
(* distance are integers in units of 1/DScale, a landmark or box           *)
(* coordinate is a whole pixel, a per-point agreement is an integer number *)
(* of hundredths, and a similarity is an exact fraction [num, den] of      *)
(* hundredths of a percent until Math.round makes it an integer number of  *)
(* hundredths.  The landmark sets of the model are translations of one     *)
(* template along (30, 40), so every point distance is a whole pixel.      *)
(***************************************************************************)
EXTENDS Integers, Sequences, FiniteSets, TLC

VARIABLES
    pc,             \* where the request is: the await it is suspended at
    isIDCard,       \* the argument of the running detectFaceAndExtract
    img,            \* its local img
    fullDetection,  \* its local fullDetection
    alignedFace,    \* its local alignedFace
    drawn,          \* the source rectangle of each ctx.drawImage crop
    idCardResult,   \* the handler's idCardResult
    photoResult,    \* the handler's photoResult
    response,       \* the response sent, its status and JSON body
    uploadedFiles,  \* the handler's uploadedFiles
    uploads,        \* the files in the uploads directory
    now,            \* Date.now(), the clock in milliseconds
    disk,           \* the names in the uploads directory of the server
    fileLog,        \* every write and unlink of a name, and the request
                    \* that made it
    requests,       \* the requests in flight on the server: where each is,
                    \* its req.files and its uploadedFiles
    loaded,         \* the models loadModels has loaded, in order
    server,         \* the process: starting, listening or exited
    component,      \* the version of the FaceMatching component mounted
    referenceImage, \* its state referenceImage (expectedImage)
    actualImage,    \* its state actualImage
    matchResult,    \* its state result
    loading,        \* its state loading
    error,          \* its state error
    reading,        \* the files convertToBase64 is reading
    inflight        \* the body of the request axios.post is waiting for

\* the variables of the server that requests in flight share
serverVars == <<now, disk, fileLog, requests>>

\* the variables of the start of the process
startVars == <<loaded, server>>

\* the variables of the FaceMatching component
uiVars == <<component, referenceImage, actualImage, matchResult, loading,
            error, reading, inflight>>

vars == <<pc, isIDCard, img, fullDetection, alignedFace, drawn,
          idCardResult, photoResult, response, uploadedFiles, uploads,
          now, disk, fileLog, requests, loaded, server, component,
          referenceImage, actualImage, matchResult, loading, error,
          reading, inflight>>

-----------------------------------------------------------------------------
(* Bounds of the model *)

\* landmark groups are shifted by 0..MaxShift steps of 50 pixels
MaxShift == 2

\* images are ImgSize x ImgSize pixels
ImgSize == 200

\* detected boxes are BoxSide x BoxSide pixels
BoxSide == 100

-----------------------------------------------------------------------------
(* Program constants *)

\* fixed point scale of descriptor coordinates and distances: 1.0 = DScale
DScale == 10000

\* const threshold = 50
threshold == 50

\* the value of a variable that holds nothing
None == [none |-> TRUE]

-----------------------------------------------------------------------------
(* Arithmetic *)

Max(a, b) == IF a >= b THEN a ELSE b

Min(a, b) == IF a <= b THEN a ELSE b

Abs(a) == IF a >= 0 THEN a ELSE -a

RECURSIVE SqrtSearch(_, _, _)
\* largest r in lo..hi with r * r <= n
SqrtSearch(n, lo, hi) ==
    IF lo >= hi THEN lo
    ELSE LET mid == (lo + hi + 1) \div 2
         IN  IF mid * mid <= n THEN SqrtSearch(n, mid, hi)
                               ELSE SqrtSearch(n, lo, mid - 1)

\* Math.sqrt on a non-negative integer, rounded down
ISqrt(n) == SqrtSearch(n, 0, Min(n, 46340))

RECURSIVE SumSq(_, _)
\* sum of the squared coordinate differences of two vectors of equal length
SumSq(a, b) ==
    IF a = <<>> \/ b = <<>> THEN 0
    ELSE (Head(a) - Head(b)) * (Head(a) - Head(b)) + SumSq(Tail(a), Tail(b))

\* faceapi.euclideanDistance(arr1, arr2) for arrays of one length
euclideanDistance(a, b) == ISqrt(SumSq(a, b))

\* the check faceapi.euclideanDistance makes before it computes: it throws
\* when arr1.length !== arr2.length
SameLength(a, b) == Len(a) = Len(b)

EuclideanErrorMessage == <<"euclideanDistance: arr1.length !== arr2.length">>

RECURSIVE SumSeq(_)
SumSeq(s) == IF s = <<>> THEN 0 ELSE Head(s) + SumSeq(Tail(s))

\* Math.round of the fraction num / den (den > 0): halves round up
Round(num, den) == (2 * num + den) \div (2 * den)

RECURSIVE GCD(_, _)
GCD(a, b) == IF b = 0 THEN a ELSE GCD(b, a % b)

LCM(a, b) == (a \div GCD(a, b)) * b

\* the value of 0 / 0
NaN == [num |-> 0, den |-> 0]

IsNaN(f) == f.den = 0

\* the fraction n / d (d >= 0) in lowest terms; 0 / 0 is NaN
Frac(n, d) ==
    IF d = 0 THEN NaN
    ELSE LET g == GCD(Abs(n), d)
         IN  [num |-> n \div g, den |-> d \div g]

FAdd(a, b) ==
    IF IsNaN(a) \/ IsNaN(b) THEN NaN
    ELSE LET d == LCM(a.den, b.den)
         IN  Frac(a.num * (d \div a.den) + b.num * (d \div b.den), d)

FMul(a, b) ==
    IF IsNaN(a) \/ IsNaN(b) THEN NaN
    ELSE LET x == Frac(a.num, b.den)
             y == Frac(b.num, a.den)
         IN  Frac(x.num * y.num, x.den * y.den)

\* a < b, false when either is NaN
FLess(a, b) ==
    ~IsNaN(a) /\ ~IsNaN(b) /\ a.num * b.den < b.num * a.den

\* a <= b, false when either is NaN
FLeq(a, b) ==
    ~IsNaN(a) /\ ~IsNaN(b) /\ a.num * b.den <= b.num * a.den

\* Math.min(a, b) on fractions, NaN when either is NaN
FMin(a, b) ==
    IF IsNaN(a) \/ IsNaN(b) THEN NaN
    ELSE IF FLess(b, a) THEN b ELSE a

\* Math.round(x * scale) / scale
RoundTo(x, scale) ==
    IF IsNaN(x) THEN NaN ELSE Frac(Round(x.num * scale, x.den), scale)

-----------------------------------------------------------------------------
(* What the detector can return *)

Point(px, py) == [x |-> px, y |-> py]

\* the landmark groups analyzeSimilarity reads
Groups == {"leftEye", "rightEye", "nose", "mouth"}

\* landmark positions of an unshifted face
Template ==
    [leftEye  |-> <<Point(40, 50), Point(50, 50)>>,
     rightEye |-> <<Point(90, 50), Point(100, 50)>>,
     nose     |-> <<Point(70, 80)>>,
     mouth    |-> <<Point(60, 110), Point(80, 110)>>]

\* a group moved k steps along (30, 40), that is, by 50 * k pixels
Shifted(points, k) ==
    [i \in 1..Len(points) |->
        Point(points[i].x + 30 * k, points[i].y + 40 * k)]

\* the landmark set whose group g is shifted by sh[g] steps
Landmarks(sh) == [g \in Groups |-> Shifted(Template[g], sh[g])]

\* every landmark set: each group shifted on its own
LandmarkSets == {Landmarks(sh) : sh \in [Groups -> 0..MaxShift]}

\* the landmark sets of a face that moved as a whole
RigidLandmarkSets ==
    {Landmarks([g \in Groups |-> k]) : k \in 0..MaxShift}

\* descriptors, coordinates in units of 1/DScale; their pairwise distances
\* include 0, 0.3999, 0.4, 0.5, 0.55, 0.5999, 0.6, 0.75 and 1.15
Descriptors ==
    {<<0, 0>>, <<3999, 0>>, <<4000, 0>>, <<6000, 0>>, <<9999, 0>>,
     <<11500, 0>>, <<3000, 4000>>}

\* the descriptors the request pipeline draws from: distances 0, 0.55,
\* 0.6 and 1.15
RequestDescriptors == {<<0, 0>>, <<6000, 0>>, <<11500, 0>>}

Box(bx, by) == [x |-> bx, y |-> by, width |-> BoxSide, height |-> BoxSide]

\* boxes in the corners of the image (the detector clips boxes to the image)
Boxes == {Box(bx, by) : bx, by \in {0, ImgSize - BoxSide}}

\* the results detectSingleFace(...).withFaceLandmarks().withFaceDescriptor()
\* can give for an input, which is an image or an aligned canvas
Detection(input, d, l, b) ==
    [input |-> input, descriptor |-> d, landmarks |-> l,
     detection |-> [box |-> b]]

DetectionsOn(input) ==
    {Detection(input, d, l, b) :
        d \in RequestDescriptors, l \in RigidLandmarkSets, b \in Boxes}

-----------------------------------------------------------------------------
(* compareFeaturePoints and analyzeSimilarity *)

\* the coordinate differences added up with their signs
PointMatchSigned(p1, p2) ==
    100 - Min((p2.x - p1.x) + (p2.y - p1.y), 100)

\* 1 - Math.min(euclideanDistance([p1.x, p1.y], [p2.x, p2.y]) / 100, 1),
\* in hundredths
PointMatch(p1, p2) ==
    100 - Min(euclideanDistance(<<p1.x, p1.y>>, <<p2.x, p2.y>>), 100)

\* compareFeaturePoints(points1, points2): reading p2.x of a missing
\* points2[i] throws, and the catch returns 0; an empty points1 gives 0 / 0
compareFeaturePoints(points1, points2) ==
    IF Len(points2) < Len(points1) THEN Frac(0, 1)
    ELSE Frac(SumSeq([i \in 1..Len(points1) |->
                        PointMatch(points1[i], points2[i])]),
              100 * Len(points1))

\* (leftEyeMatch + rightEyeMatch + noseMatch + mouthMatch) / 4
FeatureMatchScore(m) ==
    FMul(FAdd(FAdd(m.leftEye, m.rightEye), FAdd(m.nose, m.mouth)),
         Frac(1, 4))

\* the base similarity taken as a magnitude
BaseSimilarityAbs(distance) == Frac(Abs(DScale - distance) * 100, DScale)

\* let similarity = (1 - distance) * 100
BaseSimilarity(distance) == Frac((DScale - distance) * 100, DScale)

\* a boost of up to 40% instead of 20%
BoostDouble(similarity, featureMatchScore) ==
    FMul(similarity, FAdd(Frac(1, 1), FMul(featureMatchScore, Frac(2, 5))))

\* similarity = similarity * (1 + featureMatchScore * 0.2)
Boost(similarity, featureMatchScore) ==
    FMul(similarity, FAdd(Frac(1, 1), FMul(featureMatchScore, Frac(1, 5))))

\* no cap
CapMissing(similarity) == similarity

\* similarity = Math.min(100, similarity)
Cap(similarity) == FMin(Frac(100, 1), similarity)

VeryHigh == "Very high confidence match based on facial features"
Good == "Good confidence match with some variations"
Possible == "Possible match with notable variations"
Structural == "Strong structural similarity in facial features"
Eyes == "Eye regions show strong correspondence"
Nose == "Nose structure shows high similarity"
Mouth == "Mouth region indicates a match"
Variations == "Variations likely due to aging, expression, or image conditions"

\* the if / else if chain on distance
TierSentences(distance) ==
    IF distance * 10 < 4 * DScale THEN <<VeryHigh>>
    ELSE IF distance * 10 < 5 * DScale THEN <<Good>>
    ELSE IF distance * 10 < 6 * DScale THEN <<Possible>>
    ELSE <<>>

\* the caveat pushed from the end of the first tier on
FeatureSentencesFrom04(distance, m, featureMatchScore) ==
    (IF FLess(Frac(8, 10), featureMatchScore) THEN <<Structural>> ELSE <<>>)
    \o (IF FLess(Frac(8, 10), m.leftEye) /\ FLess(Frac(8, 10), m.rightEye)
        THEN <<Eyes>> ELSE <<>>)
    \o (IF FLess(Frac(8, 10), m.nose) THEN <<Nose>> ELSE <<>>)
    \o (IF FLess(Frac(8, 10), m.mouth) THEN <<Mouth>> ELSE <<>>)
    \o (IF distance * 10 >= 4 * DScale THEN <<Variations>> ELSE <<>>)

\* the caveat pushed only inside the band of the tiers
FeatureSentencesBanded(distance, m, featureMatchScore) ==
    (IF FLess(Frac(8, 10), featureMatchScore) THEN <<Structural>> ELSE <<>>)
    \o (IF FLess(Frac(8, 10), m.leftEye) /\ FLess(Frac(8, 10), m.rightEye)
        THEN <<Eyes>> ELSE <<>>)
    \o (IF FLess(Frac(8, 10), m.nose) THEN <<Nose>> ELSE <<>>)
    \o (IF FLess(Frac(8, 10), m.mouth) THEN <<Mouth>> ELSE <<>>)
    \o (IF distance * 100 > 45 * DScale /\ distance * 10 < 6 * DScale
        THEN <<Variations>> ELSE <<>>)

\* the sentences pushed after the tier sentence
FeatureSentences(distance, m, featureMatchScore) ==
    (IF FLess(Frac(8, 10), featureMatchScore) THEN <<Structural>> ELSE <<>>)
    \o (IF FLess(Frac(8, 10), m.leftEye) /\ FLess(Frac(8, 10), m.rightEye)
        THEN <<Eyes>> ELSE <<>>)
    \o (IF FLess(Frac(8, 10), m.nose) THEN <<Nose>> ELSE <<>>)
    \o (IF FLess(Frac(8, 10), m.mouth) THEN <<Mouth>> ELSE <<>>)
    \o (IF distance * 100 > 45 * DScale THEN <<Variations>> ELSE <<>>)

RECURSIVE Join(_, _)
\* analysis.join(sep), as the sequence of its pieces
Join(analysis, sep) ==
    IF analysis = <<>> THEN <<>>
    ELSE IF Len(analysis) = 1 THEN analysis
    ELSE <<Head(analysis), sep>> \o Join(Tail(analysis), sep)

\* the similarity returned for a distance and a feature match score
Similarity(distance, featureMatchScore) ==
    RoundTo(Cap(Boost(BaseSimilarity(distance), featureMatchScore)), 100)

\* a catch that logs the error and does not throw it again
analyzeSimilaritySwallows(detection1, detection2) == FALSE

\* findBestMatch throws, and the catch of analyzeSimilarity throws it again
analyzeSimilarityThrows(detection1, detection2) ==
    ~SameLength(detection1.descriptor, detection2.descriptor)

\* the value analyzeSimilarity returns when it does not throw
analyzeSimilarity(detection1, detection2) ==
    LET distance == euclideanDistance(detection1.descriptor,
                                      detection2.descriptor)
        landmarks1 == detection1.landmarks
        landmarks2 == detection2.landmarks
        m == [g \in Groups |->
                compareFeaturePoints(landmarks1[g], landmarks2[g])]
        featureMatchScore == FeatureMatchScore(m)
        analysis == TierSentences(distance)
                    \o FeatureSentences(distance, m, featureMatchScore)
    IN  [similarity |-> Similarity(distance, featureMatchScore),
         analysis |-> Join(analysis, ". ") \o <<".">>,
         distance |-> distance,
         featureMatchScore |-> featureMatchScore]

-----------------------------------------------------------------------------
(* alignFace and detectFaceAndExtract *)

\* the two names exchanged
SourceNameSwapped(idCard) == IF idCard THEN "photo" ELSE "ID card"

\* `${isIDCard ? 'ID card' : 'photo'}`
SourceName(idCard) == IF idCard THEN "ID card" ELSE "photo"

\* `${isIDCard ? 'id' : 'photo'}`
SourceTag(idCard) == IF idCard THEN "id" ELSE "photo"

\* the path multer stored the upload of a form field at
UploadPath(field) == [dir |-> "uploads", upload |-> field]

\* canvas.loadImage(imagePath)
Image(imagePath) ==
    [kind |-> "image", path |-> imagePath,
     width |-> ImgSize, height |-> ImgSize]

\* the mean of a coordinate over the points of an eye
EyeCenter(points) ==
    [x |-> Frac(SumSeq([i \in 1..Len(points) |-> points[i].x]), Len(points)),
     y |-> Frac(SumSeq([i \in 1..Len(points) |-> points[i].y]), Len(points))]

\* a canvas of the size of the detected box
alignFaceBoxSized(image, detection) ==
    [kind |-> "canvas", of |-> image.path,
     width |-> detection.detection.box.width,
     height |-> detection.detection.box.height,
     angle |-> [dy |-> Frac(0, 1), dx |-> Frac(1, 1)]]

\* alignFace(img, detection): a new canvas of the size of img, on which img
\* is drawn rotated by -atan2(dy, dx) about its centre
alignFace(image, detection) ==
    LET leftEyeCenter == EyeCenter(detection.landmarks.leftEye)
        rightEyeCenter == EyeCenter(detection.landmarks.rightEye)
        neg(f) == Frac(-f.num, f.den)
    IN  [kind |-> "canvas", of |-> image.path,
         width |-> image.width, height |-> image.height,
         angle |-> [dy |-> FAdd(rightEyeCenter.y, neg(leftEyeCenter.y)),
                    dx |-> FAdd(rightEyeCenter.x, neg(leftEyeCenter.x))]]

\* Math.floor(Math.max(box.width, box.height) * 0.25)
Margin(box) == (Max(box.width, box.height) * 25) \div 100

\* the source rectangle ctx.drawImage(alignedFace, sx, sy, sw, sh, ...) gets
SourceRect(box) ==
    [sx |-> Max(0, box.x - Margin(box)),
     sy |-> Max(0, box.y - Margin(box)),
     sw |-> box.width + Margin(box) * 2,
     sh |-> box.height + Margin(box) * 2]

\* `extracted_${isIDCard ? 'id' : 'photo'}_...jpg`
ExtractedFileName(idCard) == [extracted |-> SourceTag(idCard)]

\* the first-pass detection returned
ReturnedDetectionFirstPass(full, aligned) == full

\* the detection detectFaceAndExtract returns and takes the box from
ReturnedDetection(full, aligned) == aligned

\* the value detectFaceAndExtract returns
ExtractResult(idCard, full, aligned) ==
    LET d == ReturnedDetection(full, aligned)
    IN  [detection |-> d,
         extractedFilePath |-> ExtractedFileName(idCard),
         box |-> [x |-> d.detection.box.x, y |-> d.detection.box.y,
                  width |-> d.detection.box.width,
                  height |-> d.detection.box.height]]

\* throw new Error(`Failed to process ${...}: ${error.message}`)
ProcessError(idCard, message) ==
    <<"Failed to process ", SourceName(idCard), ": ">> \o message

NoFaceMessage(idCard) == <<"No face detected in the ", SourceName(idCard)>>

NoAlignedFaceMessage(idCard) ==
    <<"Could not detect face features in aligned ", SourceName(idCard)>>

\* messages of the errors the libraries throw
LoadErrorMessage == <<"Unsupported image type">>
WriteErrorMessage == <<"ENOSPC: no space left on device, write">>

-----------------------------------------------------------------------------
(* The handler of POST /api/match-faces *)

Fields == {"expectedImage", "actualImage"}

\* a catch that logs the error and sends nothing
ErrorResponseSilent(message) == None

\* res.status(500).json({ error: error.message }) and the finally block
ErrorResponse(message) == [status |-> 500, body |-> [error |-> message]]

\* a finally block that empties the uploads directory
UnlinkedAll(dir, paths) == {}

\* the finally block: unlink every path of uploadedFiles
Unlinked(dir, paths) == dir \ {paths[i] : i \in 1..Len(paths)}

\* the threshold of 65 that the comment above the constant speaks of
MatchAt65(similarity) == FLeq(Frac(65, 1), similarity)

\* a match only above the threshold
MatchStrict(similarity) == FLess(Frac(threshold, 1), similarity)

\* const match = similarity >= threshold
Match(similarity) == FLeq(Frac(threshold, 1), similarity)

\* the body of res.json(...)
ResultBody(idResult, phResult) ==
    LET r == analyzeSimilarity(idResult.detection, phResult.detection)
        match == Match(r.similarity)
    IN  [match |-> match,
         confidence |-> r.similarity,
         analysis |-> r.analysis,
         featureMatchScore |->
            IF IsNaN(r.featureMatchScore) THEN NaN
            ELSE Round(r.featureMatchScore.num * 100,
                       r.featureMatchScore.den),
         message |-> IF match THEN "Faces match" ELSE "Faces do not match",
         threshold |-> threshold,
         idCardFace |-> [url |-> <<"http://localhost:3001/uploads", "/",
                                   idResult.extractedFilePath>>,
                         box |-> idResult.box],
         photoFace |-> [url |-> <<"http://localhost:3001/uploads", "/",
                                  phResult.extractedFilePath>>,
                        box |-> phResult.box]]

\* the models in the order loadModels loads them
Models == <<"ssdMobilenetv1", "faceLandmark68Net", "faceRecognitionNet">>

\* a server that has loaded its models and listens
Serving ==
    /\ loaded = Models
    /\ server = "listening"

\* no component is mounted
NoUser ==
    /\ component = "none"
    /\ referenceImage = None
    /\ actualImage = None
    /\ matchResult = None
    /\ loading = FALSE
    /\ error = None
    /\ reading = {}
    /\ inflight = None

MaxRequests == 2

MaxTime == 1

Requests == 1..MaxRequests

\* a request of which multer has stored nothing yet
NewRequest == [pc |-> "expectedImage", files |-> <<>>, uploadedFiles |-> <<>>]

\* a server on which no request has arrived
NoTraffic ==
    /\ now = 0
    /\ disk = {}
    /\ fileLog = {}
    /\ requests = [r \in Requests |-> NewRequest]

Init ==
    /\ NoTraffic
    /\ Serving
    /\ NoUser
    /\ pc = "idle"
    /\ isIDCard = FALSE
    /\ img = None
    /\ fullDetection = None
    /\ alignedFace = None
    /\ drawn = [t \in {"id", "photo"} |-> None]
    /\ idCardResult = None
    /\ photoResult = None
    /\ response = None
    /\ uploadedFiles = <<>>
    /\ uploads = {}

\* a failure of the ID card that is answered but does not end the request:
\* the handler goes on with the photo
FailAndGoOn(message) ==
    /\ response' = ErrorResponse(ProcessError(isIDCard, message))
    /\ IF isIDCard
       THEN pc' = "loadImage" /\ UNCHANGED uploads
       ELSE pc' = "done" /\ uploads' = Unlinked(uploads, uploadedFiles)
    /\ isIDCard' = FALSE
    /\ img' = None
    /\ fullDetection' = None
    /\ alignedFace' = None
    /\ UNCHANGED <<drawn, idCardResult, photoResult, uploadedFiles>>

\* a catch around detectFaceAndExtract that logs the error and lets the
\* handler go on to the comparison
FailAndCompare(message) ==
    /\ pc' = "analyze"
    /\ isIDCard' = FALSE
    /\ img' = None
    /\ fullDetection' = None
    /\ alignedFace' = None
    /\ UNCHANGED <<drawn, idCardResult, photoResult, response,
                   uploadedFiles, uploads>>

\* a rejected detectFaceAndExtract: the handler's catch answers 500 and the
\* finally block deletes the uploaded files
Fail(message) ==
    /\ response' = ErrorResponse(ProcessError(isIDCard, message))
    /\ uploads' = Unlinked(uploads, uploadedFiles)
    /\ pc' = "done"
    /\ isIDCard' = FALSE
    /\ img' = None
    /\ fullDetection' = None
    /\ alignedFace' = None
    /\ UNCHANGED <<drawn, idCardResult, photoResult, uploadedFiles>>

\* a request arrives; multer has stored the files of the fields it carries
Request ==
    /\ UNCHANGED <<serverVars, startVars, uiVars>>
    /\ pc = "idle"
    /\ server = "listening"
    /\ \E fields \in SUBSET Fields :
        /\ uploads' = uploads \cup {UploadPath(f) : f \in fields}
        /\ IF fields # Fields
           THEN /\ response' = [status |-> 400,
                                body |-> [error |->
                                            <<"Both images are required">>]]
                /\ pc' = "done"
                /\ UNCHANGED <<isIDCard, uploadedFiles>>
           ELSE /\ uploadedFiles' = <<UploadPath("expectedImage"),
                                      UploadPath("actualImage")>>
                /\ isIDCard' = TRUE
                /\ pc' = "loadImage"
                /\ UNCHANGED response
    /\ UNCHANGED <<img, fullDetection, alignedFace, drawn,
                   idCardResult, photoResult>>

\* const img = await canvas.loadImage(imagePath)
LoadImage ==
    /\ UNCHANGED <<serverVars, startVars, uiVars>>
    /\ pc = "loadImage"
    /\ \/ /\ img' = Image(IF isIDCard THEN uploadedFiles[1]
                                      ELSE uploadedFiles[2])
          /\ pc' = "detect"
          /\ UNCHANGED <<isIDCard, fullDetection, alignedFace, drawn,
                         idCardResult, photoResult, response,
                         uploadedFiles, uploads>>
       \/ Fail(LoadErrorMessage)

\* const fullDetection = await faceapi.detectSingleFace(img, options)...
Detected(d) ==
    /\ fullDetection' = d
    /\ pc' = "align"
    /\ UNCHANGED <<isIDCard, img, alignedFace, drawn, idCardResult,
                   photoResult, response, uploadedFiles, uploads>>

Detect ==
    /\ UNCHANGED <<serverVars, startVars, uiVars>>
    /\ pc = "detect"
    /\ \/ \E d \in DetectionsOn(img) : Detected(d)
       \/ Fail(NoFaceMessage(isIDCard))

\* const alignedFace = await alignFace(img, fullDetection)
Align ==
    /\ UNCHANGED <<serverVars, startVars, uiVars>>
    /\ pc = "align"
    /\ alignedFace' = alignFace(img, fullDetection)
    /\ pc' = "redetect"
    /\ UNCHANGED <<isIDCard, img, fullDetection, drawn, idCardResult,
                   photoResult, response, uploadedFiles, uploads>>

\* the second detection, the crop, the write of the extracted face and the
\* return to the handler, for a detector that gives one of `detections`
ReDetectAmong(detections) ==
    /\ UNCHANGED <<serverVars, startVars, uiVars>>
    /\ pc = "redetect"
    /\ \/ \E d \in detections :
            LET result == ExtractResult(isIDCard, fullDetection, d)
            IN  /\ drawn' = [drawn EXCEPT ![SourceTag(isIDCard)] =
                                SourceRect(d.detection.box)]
                /\ \/ /\ uploads' =
                            uploads \cup {ExtractedFileName(isIDCard)}
                      /\ IF isIDCard
                         THEN /\ idCardResult' = result
                              /\ isIDCard' = FALSE
                              /\ pc' = "loadImage"
                              /\ UNCHANGED photoResult
                         ELSE /\ photoResult' = result
                              /\ isIDCard' = FALSE
                              /\ pc' = "analyze"
                              /\ UNCHANGED idCardResult
                      /\ img' = None
                      /\ fullDetection' = None
                      /\ alignedFace' = None
                      /\ UNCHANGED <<response, uploadedFiles>>
                   \/ /\ response' =
                            ErrorResponse(ProcessError(isIDCard,
                                                       WriteErrorMessage))
                      /\ uploads' = Unlinked(uploads, uploadedFiles)
                      /\ pc' = "done"
                      /\ isIDCard' = FALSE
                      /\ img' = None
                      /\ fullDetection' = None
                      /\ alignedFace' = None
                      /\ UNCHANGED <<idCardResult, photoResult,
                                     uploadedFiles>>
       \/ /\ Fail(NoAlignedFaceMessage(isIDCard))

ReDetect == ReDetectAmong(DetectionsOn(alignedFace))

\* analyzeSimilarity, res.json(...) or the catch, and the finally block
Respond ==
    /\ UNCHANGED <<serverVars, startVars, uiVars>>
    /\ pc = "analyze"
    /\ response' =
          IF analyzeSimilarityThrows(idCardResult.detection,
                                     photoResult.detection)
          THEN ErrorResponse(EuclideanErrorMessage)
          ELSE [status |-> 200,
                body |-> ResultBody(idCardResult, photoResult)]
    /\ uploads' = Unlinked(uploads, uploadedFiles)
    /\ pc' = "done"
    /\ UNCHANGED <<isIDCard, img, fullDetection, alignedFace, drawn,
                   idCardResult, photoResult, uploadedFiles>>

Next == Request \/ LoadImage \/ Detect \/ Align \/ ReDetect \/ Respond

Spec == Init /\ [][Next]_vars

-----------------------------------------------------------------------------
(* The scoring step on its own: the handler resumed after both             *)
(* detectFaceAndExtract calls, for every pair of detections                *)

\* the detections of the aligned canvas of an upload, over all descriptors
ScoreDetections(field, landmarkSets) ==
    {Detection(alignFace(Image(UploadPath(field)),
                         Detection(Image(UploadPath(field)), d, l, Box(0, 0))),
               d, l, Box(0, 0)) :
        d \in Descriptors, l \in landmarkSets}

InitScore ==
    /\ NoTraffic
    /\ Serving
    /\ NoUser
    /\ pc = "analyze"
    /\ isIDCard = FALSE
    /\ img = None
    /\ fullDetection = None
    /\ alignedFace = None
    /\ drawn = [t \in {"id", "photo"} |-> SourceRect(Box(0, 0))]
    /\ idCardResult \in
         {ExtractResult(TRUE, d, d) :
            d \in ScoreDetections("expectedImage", RigidLandmarkSets)}
    /\ photoResult \in
         {ExtractResult(FALSE, d, d) :
            d \in ScoreDetections("actualImage", LandmarkSets)}
    /\ response = None
    /\ uploadedFiles = <<UploadPath("expectedImage"),
                         UploadPath("actualImage")>>
    /\ uploads = {UploadPath("expectedImage"), UploadPath("actualImage"),
                  ExtractedFileName(TRUE), ExtractedFileName(FALSE)}

NextScore == Respond

SpecScore == InitScore /\ [][NextScore]_vars

-----------------------------------------------------------------------------
(* The photo's alignment, second pass and the scoring for detections of    *)
(* any shape: descriptors of two lengths, landmark groups that are empty   *)
(* or short                                                                *)

ShapeDescriptors == {<<0, 0>>, <<6000, 0>>, <<6000>>}

ShapeLandmarkSets ==
    {Template,
     Landmarks([g \in Groups |-> 1]),
     [Template EXCEPT !.leftEye = <<>>],
     [Template EXCEPT !.rightEye = <<>>],
     [Template EXCEPT !.mouth = <<Template.mouth[1]>>]}

ShapeDetectionsOn(input) ==
    {Detection(input, d, l, Box(0, 0)) :
        d \in ShapeDescriptors, l \in ShapeLandmarkSets}

InitShapes ==
    /\ NoTraffic
    /\ Serving
    /\ NoUser
    /\ pc = "align"
    /\ isIDCard = FALSE
    /\ img = Image(UploadPath("actualImage"))
    /\ fullDetection \in ShapeDetectionsOn(img)
    /\ alignedFace = None
    /\ drawn = [t \in {"id", "photo"} |->
                  IF t = "id" THEN SourceRect(Box(0, 0)) ELSE None]
    /\ idCardResult \in
         {ExtractResult(TRUE, d, d) :
            d \in UNION {ShapeDetectionsOn(
                            alignFace(Image(UploadPath("expectedImage")), f)) :
                         f \in ShapeDetectionsOn(
                                  Image(UploadPath("expectedImage")))}}
    /\ photoResult = None
    /\ response = None
    /\ uploadedFiles = <<UploadPath("expectedImage"),
                         UploadPath("actualImage")>>
    /\ uploads = {UploadPath("expectedImage"), UploadPath("actualImage"),
                  ExtractedFileName(TRUE)}

ReDetectShapes == ReDetectAmong(ShapeDetectionsOn(alignedFace))

NextShapes == Align \/ ReDetectShapes \/ Respond

SpecShapes == InitShapes /\ [][NextShapes]_vars

-----------------------------------------------------------------------------
(* The first detection on an image that holds several faces                *)

MaxFaces == 2

\* detection scores, in hundredths
FaceScores == {5, 15, 30, 90}

FaceSides == {BoxSide \div 2, BoxSide}

\* a face the network finds in the image at imagePath
Face(imagePath, score, side) ==
    [input |-> imagePath, descriptor |-> <<0, 0>>, landmarks |-> Template,
     detection |-> [box |-> [x |-> 0, y |-> 0, width |-> side,
                              height |-> side],
                    score |-> score]]

FacesIn(imagePath) ==
    {Face(imagePath, sc, sd) : sc \in FaceScores, sd \in FaceSides}

\* the faces of an image, in the order the network gives them
FaceLists(imagePath) ==
    UNION {[1..n -> FacesIn(imagePath)] : n \in 0..MaxFaces}

ImageWith(imagePath, faces) ==
    [kind |-> "image", path |-> imagePath,
     width |-> ImgSize, height |-> ImgSize, faces |-> faces]

\* minConfidence: isIDCard ? 0.1 : 0.2, in hundredths
MinConfidence(idCard) == IF idCard THEN 10 ELSE 20

Area(box) == box.width * box.height

\* a detector that gives the face with the largest box
detectLargestFace(faces, minConfidence) ==
    {faces[i] : i \in {k \in 1..Len(faces) :
        /\ faces[k].detection.score >= minConfidence
        /\ \A j \in 1..Len(faces) :
              Area(faces[j].detection.box) <= Area(faces[k].detection.box)}}

\* faceapi.detectSingleFace(img, options) with maxResults 1: the faces with
\* the highest score among those whose score reaches minConfidence (one of
\* them is returned; none when the set is empty)
detectSingleFace(faces, minConfidence) ==
    {faces[i] : i \in {k \in 1..Len(faces) :
        /\ faces[k].detection.score >= minConfidence
        /\ \A j \in 1..Len(faces) :
              faces[j].detection.score <= faces[k].detection.score}}

DetectFaces ==
    /\ UNCHANGED <<serverVars, startVars, uiVars>>
    /\ pc = "detect"
    /\ LET found == detectSingleFace(img.faces, MinConfidence(isIDCard))
       IN  IF found = {}
           THEN Fail(NoFaceMessage(isIDCard))
           ELSE \E d \in found : Detected(d)

InitDetect ==
    /\ NoTraffic
    /\ Serving
    /\ NoUser
    /\ pc = "detect"
    /\ isIDCard \in BOOLEAN
    /\ img \in {ImageWith(UploadPath(IF isIDCard THEN "expectedImage"
                                                 ELSE "actualImage"), fs) :
                  fs \in FaceLists(UploadPath(IF isIDCard THEN "expectedImage"
                                                          ELSE "actualImage"))}
    /\ fullDetection = None
    /\ alignedFace = None
    /\ drawn = [t \in {"id", "photo"} |->
                  IF t = "id" /\ ~isIDCard THEN SourceRect(Box(0, 0))
                  ELSE None]
    /\ idCardResult =
         IF isIDCard THEN None
         ELSE ExtractResult(TRUE,
                 Detection(Image(UploadPath("expectedImage")), <<0, 0>>,
                           Template, Box(0, 0)),
                 Detection(alignFace(Image(UploadPath("expectedImage")),
                              Detection(Image(UploadPath("expectedImage")),
                                        <<0, 0>>, Template, Box(0, 0))),
                           <<0, 0>>, Template, Box(0, 0)))
    /\ photoResult = None
    /\ response = None
    /\ uploadedFiles = <<UploadPath("expectedImage"),
                         UploadPath("actualImage")>>
    /\ uploads = {UploadPath("expectedImage"), UploadPath("actualImage")}
                   \cup (IF isIDCard THEN {} ELSE {ExtractedFileName(TRUE)})

NextDetect == DetectFaces \/ Align

SpecDetect == InitDetect /\ [][NextDetect]_vars

-----------------------------------------------------------------------------
(* Requests in flight at the same time, and the names of their files       *)

\* path.extname(file.originalname) of the files clients upload
Exts == {".jpg"}

\* multer's filename: Date.now() + path.extname(file.originalname)
UploadName(t, ext) == [upload |-> t, ext |-> ext]

\* `extracted_${isIDCard ? 'id' : 'photo'}_${Date.now()}.jpg`
ExtractedName(idCard, t) == [extracted |-> SourceTag(idCard), at |-> t]

\* the single request of the other specifications stands still
requestVars == <<pc, isIDCard, img, fullDetection, alignedFace, drawn,
                 idCardResult, photoResult, response, uploadedFiles,
                 uploads>>

Written(name, r) == [op |-> "write", name |-> name, by |-> r]

UnlinkedBy(name, r) == [op |-> "unlink", name |-> name, by |-> r]

\* multer stores the next file of request r under the name of this
\* millisecond
Store(r) ==
    /\ requests[r].pc \in Fields
    /\ server = "listening"
    /\ \E ext \in Exts :
          /\ disk' = disk \cup {UploadName(now, ext)}
          /\ fileLog' = fileLog \cup {Written(UploadName(now, ext), r)}
          /\ requests' =
                [requests EXCEPT
                   ![r].files = Append(@, UploadName(now, ext)),
                   ![r].pc = IF @ = "expectedImage" THEN "actualImage"
                             ELSE "handler"]
    /\ UNCHANGED <<now, requestVars, startVars, uiVars>>

\* the handler of request r starts: uploadedFiles.push(expectedImagePath,
\* actualImagePath)
Handle(r) ==
    /\ requests[r].pc = "handler"
    /\ requests' = [requests EXCEPT ![r].uploadedFiles = requests[r].files,
                                    ![r].pc = "id"]
    /\ UNCHANGED <<now, disk, fileLog, requestVars, startVars, uiVars>>

\* detectFaceAndExtract of request r for the ID card or the photo: it reads
\* the uploaded file and writes the extracted face, or it throws
Extract(r) ==
    /\ requests[r].pc \in {"id", "photo"}
    /\ LET idCard == requests[r].pc = "id"
           imagePath == requests[r].files[IF idCard THEN 1 ELSE 2]
           name == ExtractedName(idCard, now)
       IN  \/ /\ imagePath \in disk
              /\ disk' = disk \cup {name}
              /\ fileLog' = fileLog \cup {Written(name, r)}
              /\ requests' = [requests EXCEPT
                                ![r].pc = IF idCard THEN "photo"
                                          ELSE "finally"]
           \/ /\ requests' = [requests EXCEPT ![r].pc = "finally"]
              /\ UNCHANGED <<disk, fileLog>>
    /\ UNCHANGED <<now, requestVars, startVars, uiVars>>

\* the finally block of request r: every uploaded file that exists is
\* unlinked
Finally(r) ==
    /\ requests[r].pc = "finally"
    /\ LET gone == {requests[r].uploadedFiles[i] :
                      i \in 1..Len(requests[r].uploadedFiles)} \cap disk
       IN  /\ disk' = disk \ gone
           /\ fileLog' = fileLog \cup {UnlinkedBy(n, r) : n \in gone}
    /\ requests' = [requests EXCEPT ![r].pc = "done"]
    /\ UNCHANGED <<now, requestVars, startVars, uiVars>>

\* a millisecond passes
Tick ==
    /\ now < MaxTime
    /\ now' = now + 1
    /\ UNCHANGED <<disk, fileLog, requests, requestVars, startVars, uiVars>>

NextFiles ==
    \/ \E r \in Requests : Store(r)
    \/ \E r \in Requests : Handle(r)
    \/ \E r \in Requests : Extract(r)
    \/ \E r \in Requests : Finally(r)
    \/ Tick

SpecFiles == Init /\ [][NextFiles]_vars

-----------------------------------------------------------------------------
(* The start of the process: loadModels, then app.listen                   *)

\* no request has arrived
NoRequest ==
    /\ pc = "idle"
    /\ isIDCard = FALSE
    /\ img = None
    /\ fullDetection = None
    /\ alignedFace = None
    /\ drawn = [t \in {"id", "photo"} |-> None]
    /\ idCardResult = None
    /\ photoResult = None
    /\ response = None
    /\ uploadedFiles = <<>>
    /\ uploads = {}

\* startServer() has been called
InitStart ==
    /\ NoTraffic
    /\ NoUser
    /\ NoRequest
    /\ loaded = <<>>
    /\ server = "starting"

\* one await ...loadFromDisk(modelPath) of loadModels: the next model is
\* loaded, or the load throws, loadModels throws it again and startServer
\* calls process.exit(1)
LoadModel ==
    /\ server = "starting"
    /\ Len(loaded) < Len(Models)
    /\ \/ /\ loaded' = Append(loaded, Models[Len(loaded) + 1])
          /\ UNCHANGED server
       \/ /\ server' = "exited"
          /\ UNCHANGED loaded
    /\ UNCHANGED <<requestVars, serverVars, uiVars>>

\* app.listen called without awaiting loadModels
ListenEarly ==
    /\ server = "starting"
    /\ server' = "listening"
    /\ UNCHANGED <<loaded, requestVars, serverVars, uiVars>>

\* app.listen(port), after await loadModels() has returned
Listen ==
    /\ server = "starting"
    /\ loaded = Models
    /\ server' = "listening"
    /\ UNCHANGED <<loaded, requestVars, serverVars, uiVars>>

NextStart == LoadModel \/ Listen \/ Next

SpecStart == InitStart /\ [][NextStart]_vars

-----------------------------------------------------------------------------
(* The FaceMatching component: its state, its event handlers and its view  *)

\* the versions of the component in the repository
Components == {"FaceMatching.jsx", "FaceMatching.tsx", "part_002", "part_003"}

\* handleImageChange awaits convertToBase64(file) before it sets the image
ReadsAsync(c) == c # "FaceMatching.jsx"

\* the result view tests the image before it reads it: renderImageWithBox
\* returns null for a null imageFile, {referenceImage && ...} in the tsx
GuardsView(c) == c \in {"FaceMatching.jsx", "FaceMatching.tsx"}

FileTypes == {"image/jpeg", "image/gif", "text/plain"}

\* 5 * 1024 * 1024
MaxFileSize == 5242880

FileSizes == {MaxFileSize, MaxFileSize + 1}

\* the files the user can pick
Files == [type : FileTypes, size : FileSizes]

\* allowedImageTypes.includes(file.type), or file.type.startsWith('image/')
AllowedType(c, type) ==
    IF c \in {"FaceMatching.tsx", "part_003"}
    THEN type \in {"image/jpeg", "image/png", "image/jpg"}
    ELSE type \in {"image/jpeg", "image/gif"}

\* the value setError is given for a message
Message(text) == [message |-> text]

TypeMessage(c) ==
    IF c \in {"FaceMatching.tsx", "part_003"}
    THEN Message("Please upload only JPEG or PNG images")
    ELSE Message("Please upload only image files")

SizeMessage == Message("Image size should be less than 5MB")

ReadMessage == Message("Error processing image")

RequestMessage == Message("Error processing images")

\* the file passes both tests of handleImageChange
Accepts(c, file) == AllowedType(c, file.type) /\ file.size <= MaxFileSize

\* the value the state of an image is set to
Selected(c, file) ==
    IF ReadsAsync(c)
    THEN [file |-> file, base64 |-> <<"data:", file.type, file>>,
          preview |-> <<"blob:", file>>]
    ELSE file

\* the file of an image state
FileOf(c, image) == IF ReadsAsync(c) THEN image.file ELSE image

\* what handleSubmit sends for an image: the file, or its base64
Sent(c, image) == IF ReadsAsync(c) THEN image.base64 ELSE image

\* the file a sent value holds
SentFile(c, sent) == IF ReadsAsync(c) THEN sent[3] ELSE sent

ImageTypes == {"reference", "actual"}

\* response.data of a 200 response
ResponseData ==
    [match |-> TRUE, idCardFace |-> [url |-> "id"],
     photoFace |-> [url |-> "photo"]]

\* the images the result view dereferences: every image when the view does
\* not test them, the images that are set when it does
Dereferenced ==
    IF matchResult = None THEN {}
    ELSE IF GuardsView(component) THEN {referenceImage, actualImage} \ {None}
    ELSE {referenceImage, actualImage}

\* the render throws on the preview of a null image, and React unmounts the
\* component
RenderThrows == None \in Dereferenced

Mounted == component # "none" /\ ~RenderThrows

InitUI ==
    /\ NoTraffic
    /\ Serving
    /\ NoRequest
    /\ component \in Components
    /\ referenceImage = None
    /\ actualImage = None
    /\ matchResult = None
    /\ loading = FALSE
    /\ error = None
    /\ reading = {}
    /\ inflight = None

\* setReferenceImage(value) or setActualImage(value)
SetImage(type, value) ==
    IF type = "reference"
    THEN referenceImage' = value /\ UNCHANGED actualImage
    ELSE actualImage' = value /\ UNCHANGED referenceImage

\* a handleImageChange whose tests set the error and do not return
handleImageChangeNoReturn(type, file) ==
    IF ReadsAsync(component)
    THEN /\ reading' = reading \cup {[type |-> type, file |-> file]}
         /\ error' = IF ~AllowedType(component, file.type)
                     THEN TypeMessage(component)
                     ELSE IF file.size > MaxFileSize THEN SizeMessage
                     ELSE error
         /\ UNCHANGED <<referenceImage, actualImage>>
    ELSE /\ SetImage(type, Selected(component, file))
         /\ error' = None
         /\ UNCHANGED reading

\* handleImageChange(e, type) for e.target.files[0] = file, up to its await
handleImageChange(type, file) ==
    IF ~AllowedType(component, file.type)
    THEN /\ error' = TypeMessage(component)
         /\ UNCHANGED <<referenceImage, actualImage, reading>>
    ELSE IF file.size > MaxFileSize
    THEN /\ error' = SizeMessage
         /\ UNCHANGED <<referenceImage, actualImage, reading>>
    ELSE IF ReadsAsync(component)
    THEN /\ reading' = reading \cup {[type |-> type, file |-> file]}
         /\ UNCHANGED <<referenceImage, actualImage, error>>
    ELSE /\ SetImage(type, Selected(component, file))
         /\ error' = None
         /\ UNCHANGED reading

\* the user picks a file in one of the two inputs
ChangeImage ==
    /\ Mounted
    /\ \E type \in ImageTypes : \E file \in Files :
          handleImageChange(type, file)
    /\ UNCHANGED <<component, matchResult, loading, inflight>>
    /\ UNCHANGED <<requestVars, serverVars, startVars>>

\* convertToBase64 settles and handleImageChange goes on after its await
ReadDone ==
    /\ Mounted
    /\ \E r \in reading :
          /\ reading' = reading \ {r}
          /\ \/ /\ SetImage(r.type, Selected(component, r.file))
                /\ error' = None
             \/ /\ error' = ReadMessage
                /\ UNCHANGED <<referenceImage, actualImage>>
    /\ UNCHANGED <<component, matchResult, loading, inflight>>
    /\ UNCHANGED <<requestVars, serverVars, startVars>>

\* the x button of a preview: setReferenceImage(null), setActualImage(null)
Remove ==
    /\ Mounted
    /\ \E type \in ImageTypes :
          /\ (IF type = "reference" THEN referenceImage ELSE actualImage)
                # None
          /\ SetImage(type, None)
    /\ UNCHANGED <<component, matchResult, loading, error, reading,
                   inflight>>
    /\ UNCHANGED <<requestVars, serverVars, startVars>>

\* the submit button, disabled={loading || !referenceImage || !actualImage},
\* and handleSubmit up to its await
Submit ==
    /\ Mounted
    /\ ~loading
    /\ referenceImage # None
    /\ actualImage # None
    /\ loading' = TRUE
    /\ error' = None
    /\ matchResult' = None
    /\ inflight' = [referenceImage |-> Sent(component, referenceImage),
                    actualImage |-> Sent(component, actualImage)]
    /\ UNCHANGED <<component, referenceImage, actualImage, reading>>
    /\ UNCHANGED <<requestVars, serverVars, startVars>>

\* a handleSubmit without the finally block: loading is reset after
\* setResult only
SettleNoFinally ==
    /\ inflight # None
    /\ \/ /\ matchResult' = ResponseData
          /\ loading' = FALSE
          /\ UNCHANGED error
       \/ /\ error' = RequestMessage
          /\ UNCHANGED <<matchResult, loading>>
    /\ inflight' = None
    /\ UNCHANGED <<component, referenceImage, actualImage, reading>>
    /\ UNCHANGED <<requestVars, serverVars, startVars>>

\* axios.post settles: setResult(response.data) or the catch's setError,
\* then the finally block
Settle ==
    /\ inflight # None
    /\ \/ /\ matchResult' = ResponseData
          /\ UNCHANGED error
       \/ /\ error' = RequestMessage
          /\ UNCHANGED matchResult
    /\ loading' = FALSE
    /\ inflight' = None
    /\ UNCHANGED <<component, referenceImage, actualImage, reading>>
    /\ UNCHANGED <<requestVars, serverVars, startVars>>

NextUI == ChangeImage \/ ReadDone \/ Remove \/ Submit \/ Settle

SpecUI == InitUI /\ [][NextUI]_vars

-----------------------------------------------------------------------------
(* Properties *)

\* a 200 response has been sent
Answered == response # None /\ response.status = 200

\* the descriptor distance of the two detections handed to analyzeSimilarity
Distance ==
    euclideanDistance(idCardResult.detection.descriptor,
                      photoResult.detection.descriptor)

\* the feature match score of the two detections handed to analyzeSimilarity
Score ==
    FeatureMatchScore([g \in Groups |->
        compareFeaturePoints(idCardResult.detection.landmarks[g],
                             photoResult.detection.landmarks[g])])

\* the feature match scores of the model: the multiples of 1/8
Scores == {Frac(n, 8) : n \in 0..8}

TierSet == {VeryHigh, Good, Possible}

\* the number of distance-tier sentences in a joined analysis
TierCount(analysis) ==
    Cardinality({i \in 1..Len(analysis) : analysis[i] \in TierSet})

\* C1: the confidence of every 200 response lies in [0, 100], whatever the
\* descriptor distance (distances above 1 included) and the landmark sets.
C1_ConfidenceInRange ==
    Answered =>
        /\ FLeq(Frac(0, 1), response.body.confidence)
        /\ FLeq(response.body.confidence, Frac(100, 1))

C4_Monotonic ==
    Answered =>
        LET distance1 == Distance
            score == Score
        IN  \A d \in Descriptors :
                LET distance2 == euclideanDistance(
                                    idCardResult.detection.descriptor, d)
                    confidence2 == Similarity(distance2, score)
                IN  /\ distance1 <= distance2 =>
                          FLeq(confidence2, response.body.confidence)
                    /\ distance2 <= distance1 =>
                          FLeq(response.body.confidence, confidence2)

\* a verification at a distance above 1 that a smaller distance would have
\* given a strictly higher confidence
C4_Witness ==
    /\ Answered
    /\ Distance > DScale
    /\ \E d \in Descriptors :
          FLess(response.body.confidence,
                Similarity(euclideanDistance(
                              idCardResult.detection.descriptor, d), Score))

\* C5: when the first detection finds no face, the request is answered 500
\* with an error that names the image that was searched, 'ID card' for the
\* reference upload and 'photo' for the other one, and with no other field.
C5_NoFaceNamesSource ==
    [][pc = "detect" /\ pc' = "done" =>
         response' =
            [status |-> 500,
             body |-> [error |->
                IF img.path = UploadPath("expectedImage")
                THEN <<"Failed to process ", "ID card", ": ",
                       "No face detected in the ", "ID card">>
                ELSE <<"Failed to process ", "photo", ": ",
                       "No face detected in the ", "photo">>]]]_vars

\* the photo had no face, after the ID card was processed
C5_Witness ==
    /\ idCardResult # None
    /\ response = [status |-> 500,
                   body |-> [error |-> <<"Failed to process ", "photo", ": ",
                                         "No face detected in the ",
                                         "photo">>]]

\* C6: once the processing of an image has failed the request is over: the
\* response is an error with no verdict, no result of the second image
\* exists, and no further step, comparison and scoring included, can run.
C6_FailFast ==
    (response # None /\ response.status = 500) =>
        /\ pc = "done"
        /\ DOMAIN response.body = {"error"}
        /\ photoResult = None
        /\ ~ENABLED Next

\* the photo failed after the ID card had been processed
C6_Witness ==
    /\ response # None
    /\ response.status = 500
    /\ idCardResult # None

\* C7: the step after alignment either fails the request or returns the
\* detection made on the aligned canvas, with the box of that detection.
C7_SecondPassReturned ==
    [][pc = "redetect" =>
         \/ /\ pc' = "done"
            /\ response'.status = 500
            /\ UNCHANGED <<idCardResult, photoResult>>
         \/ LET result == IF isIDCard THEN idCardResult' ELSE photoResult'
            IN  /\ pc' \in {"loadImage", "analyze"}
                /\ result # None
                /\ result.detection.input = alignedFace
                /\ result.detection.input.kind = "canvas"
                /\ result.box = result.detection.detection.box]_vars

\* both images went through the second pass
C7_Witness ==
    /\ idCardResult # None
    /\ photoResult # None
    /\ idCardResult.detection.input.kind = "canvas"
    /\ photoResult.detection.input.kind = "canvas"

\* C8: the source rectangle of every crop lies within the image on all four
\* sides.
C8_CropInsideImage ==
    \A t \in {"id", "photo"} :
        drawn[t] # None =>
            /\ 0 <= drawn[t].sx
            /\ 0 <= drawn[t].sy
            /\ drawn[t].sx + drawn[t].sw <= ImgSize
            /\ drawn[t].sy + drawn[t].sh <= ImgSize

\* C9: identical descriptors and identical landmark sets give a confidence
\* of exactly 100, a match, and the highest tier sentence first.
C9_IdenticalFaces ==
    (/\ Answered
     /\ idCardResult.detection.descriptor = photoResult.detection.descriptor
     /\ idCardResult.detection.landmarks = photoResult.detection.landmarks)
    => /\ response.body.confidence = [num |-> 100, den |-> 1]
       /\ response.body.match = TRUE
       /\ response.body.message = "Faces match"
       /\ response.body.analysis[1] = VeryHigh

\* a verification of two identical detections
C9_Witness ==
    /\ Answered
    /\ idCardResult.detection.descriptor = photoResult.detection.descriptor
    /\ idCardResult.detection.landmarks = photoResult.detection.landmarks

\* C10: the analysis of every 200 response holds exactly one distance-tier
\* sentence.
C10_TierSentenceAlways ==
    Answered => TierCount(response.body.analysis) = 1

\* the sentences of a joined analysis, without the separators
Sentences(analysis) ==
    [i \in 1..(Len(analysis) \div 2) |-> analysis[2 * i - 1]]

\* the place of a sentence in the order the code pushes them
Rank(sentence) ==
    CASE sentence \in TierSet -> 1
      [] sentence = Structural -> 2
      [] sentence = Eyes -> 3
      [] sentence = Nose -> 4
      [] sentence = Mouth -> 5
      [] sentence = Variations -> 6

\* C11 as stated: the caveat sentence is in the analysis exactly when the
\* distance is at least 0.4.
C11_CaveatFrom04 ==
    Answered =>
        LET s == Sentences(response.body.analysis)
        IN  (\E i \in 1..Len(s) : s[i] = Variations)
                <=> Distance * 10 >= 4 * DScale

\* C11 amended: the caveat sentence is in the analysis exactly when the
\* distance is greater than 0.45.
C11_CaveatAbove045 ==
    Answered =>
        LET s == Sentences(response.body.analysis)
        IN  (\E i \in 1..Len(s) : s[i] = Variations)
                <=> Distance * 100 > 45 * DScale

\* a verification at a distance from 0.4 to 0.45, which has no caveat, and
\* one above 0.45, which has it
C11_Witness ==
    /\ Answered
    /\ \/ /\ Distance * 10 >= 4 * DScale
          /\ Distance * 100 <= 45 * DScale
          /\ \A i \in 1..Len(response.body.analysis) :
                response.body.analysis[i] # Variations
       \/ /\ Distance * 100 > 45 * DScale
          /\ Distance * 10 < 5 * DScale
          /\ \E i \in 1..Len(response.body.analysis) :
                response.body.analysis[i] = Variations

\* C12: the order of the sentences is fixed: the distance-tier sentence is
\* first, the feature sentences follow in one order, the caveat, when
\* present, is last, and no sentence appears twice.
C12_FixedOrder ==
    Answered =>
        LET s == Sentences(response.body.analysis)
        IN  /\ Len(s) >= 1
            /\ s[1] \in TierSet
            /\ \A i, j \in 1..Len(s) : i < j => Rank(s[i]) < Rank(s[j])
            /\ \A i \in 1..Len(s) : s[i] = Variations => i = Len(s)

\* C13: swapping the two detections gives the same score of every landmark
\* group, the same feature match score, distance and confidence.
C13_Symmetric ==
    Answered =>
        LET d1 == idCardResult.detection
            d2 == photoResult.detection
            forth == analyzeSimilarity(d1, d2)
            back == analyzeSimilarity(d2, d1)
        IN  /\ \A g \in Groups :
                  compareFeaturePoints(d1.landmarks[g], d2.landmarks[g])
                  = compareFeaturePoints(d2.landmarks[g], d1.landmarks[g])
            /\ back.featureMatchScore = forth.featureMatchScore
            /\ back.distance = forth.distance
            /\ back.similarity = response.body.confidence

\* a verification of two detections that differ in descriptor and in every
\* landmark group, at a confidence that is not capped
C13_Witness ==
    /\ Answered
    /\ Distance > 0
    /\ \A g \in Groups : idCardResult.detection.landmarks[g]
                            # photoResult.detection.landmarks[g]
    /\ response.body.confidence # [num |-> 100, den |-> 1]

\* C15: when the request has finished no uploaded input file is left in
\* the uploads directory, on the 200, the 500 and the 400 path.
C15_UploadsRemoved ==
    pc = "done" => \A f \in Fields : UploadPath(f) \notin uploads

\* C19: alignFace gives a new canvas with the width and height of the
\* image and leaves the image and the detection as they were.
C19_AlignKeepsSize ==
    [][pc = "align" =>
         /\ alignedFace'.kind = "canvas"
         /\ alignedFace'.width = img.width
         /\ alignedFace'.height = img.height
         /\ alignedFace' # img
         /\ img' = img
         /\ fullDetection' = fullDetection]_vars

\* an image has been aligned with its first detection
C19_Witness ==
    /\ pc = "redetect"
    /\ alignedFace # None
    /\ alignedFace.width = img.width
    /\ fullDetection # None

\* both faces were extracted and the handler has answered
Compared == pc = "done" /\ idCardResult # None /\ photoResult # None

\* a landmark group compareFeaturePoints cannot compare point by point
Incomparable(points1, points2) ==
    Len(points1) # Len(points2) \/ Len(points1) = 0

\* C17: when the descriptors of the two detections differ in length, the
\* comparison throws and the answer is an error response with status 500
\* whose body holds the error only: no confidence, match or analysis
C17_LengthMismatchFails ==
    (/\ Compared
     /\ Len(idCardResult.detection.descriptor)
          # Len(photoResult.detection.descriptor))
    => /\ response.status = 500
       /\ DOMAIN response.body = {"error"}
       /\ response.body.error = EuclideanErrorMessage

C17_Witness ==
    /\ Compared
    /\ Len(idCardResult.detection.descriptor) = 2
    /\ Len(photoResult.detection.descriptor) = 1
    /\ response.status = 500

\* C18: when a landmark group of the two detections cannot be compared
\* (different lengths or an empty group), the answer is an error response
\* and holds no confidence, match or analysis
C18_GeometryFailureAborts ==
    (/\ Compared
     /\ \E g \in Groups :
          Incomparable(idCardResult.detection.landmarks[g],
                       photoResult.detection.landmarks[g]))
    => /\ response.status = 500
       /\ DOMAIN response.body = {"error"}

\* C20: alignment of a detection whose left-eye or right-eye group is empty
\* produces no aligned image and ends the request with an error response
C20_EmptyEyeFails ==
    [][(/\ pc = "align"
        /\ \/ fullDetection.landmarks.leftEye = <<>>
           \/ fullDetection.landmarks.rightEye = <<>>)
       => /\ alignedFace' = None
          /\ pc' = "done"
          /\ response' # None
          /\ response'.status = 500]_vars

\* the first detection has given a face of an image that holds several
Chosen == pc \in {"align", "redetect"} /\ fullDetection # None

C14_NoSharedFiles ==
    /\ \A e1 \in fileLog : \A e2 \in fileLog :
          (e1.op = "write" /\ e1.name = e2.name) => e1.by = e2.by
    /\ \A r \in Requests :
          Len(requests[r].files) = 2
             => requests[r].files[1] # requests[r].files[2]

\* the position of the request in the pipeline: the four stages of the ID
\* card, the four stages of the photo, the comparison, the end
Stage ==
    CASE pc = "idle" -> 0
      [] pc = "analyze" -> 9
      [] pc = "done" -> 10
      [] OTHER -> (IF isIDCard THEN 0 ELSE 4)
                  + (CASE pc = "loadImage" -> 1
                       [] pc = "detect" -> 2
                       [] pc = "align" -> 3
                       [] pc = "redetect" -> 4)

\* C21: every step of a request enters the next stage or ends the request;
\* the comparison starts only when both images have been through detection,
\* alignment, re-detection and extraction, and only the end follows it
C21_StagesForward ==
    [][/\ Stage' = Stage + 1 \/ pc' = "done"
       /\ pc' = "analyze" =>
             /\ pc = "redetect" /\ ~isIDCard
             /\ idCardResult' # None /\ photoResult' # None
             /\ drawn'["id"] # None /\ drawn'["photo"] # None
       /\ pc = "analyze" => pc' = "done"]_vars

C21_Witness ==
    /\ pc = "analyze"
    /\ idCardResult # None /\ photoResult # None
    /\ drawn["id"] # None /\ drawn["photo"] # None
    /\ {ExtractedFileName(TRUE), ExtractedFileName(FALSE)} \subseteq uploads

\* C22: when a 200 response is sent, each of its two urls names an
\* extracted-face file the request wrote and the uploads directory still
\* holds; the uploaded originals are gone
C22_ExtractedFacesKept ==
    (pc = "done" /\ Answered) =>
       /\ response.body.idCardFace.url[3] = ExtractedFileName(TRUE)
       /\ response.body.photoFace.url[3] = ExtractedFileName(FALSE)
       /\ response.body.idCardFace.url[3] \in uploads
       /\ response.body.photoFace.url[3] \in uploads
       /\ \A i \in 1..Len(uploadedFiles) : uploadedFiles[i] \notin uploads

C22_Witness ==
    /\ pc = "done"
    /\ Answered
    /\ uploads = {ExtractedFileName(TRUE), ExtractedFileName(FALSE)}
    /\ Len(uploadedFiles) = 2

\* C23: every request gets exactly one response: no response is sent before
\* the handler ends, a response once sent is never replaced, and at the end
\* of the handler there is one, with status 400 when an image was missing,
\* 500 when a stage threw, 200 otherwise
C23_ExactlyOneResponse ==
    /\ [](pc # "done" => response = None)
    /\ [][response # None => response' = response]_vars
    /\ [](pc = "done" =>
            /\ response # None
            /\ response.status =
                 (IF uploadedFiles = <<>> THEN 400
                  ELSE IF idCardResult = None \/ photoResult = None THEN 500
                  ELSE IF analyzeSimilarityThrows(idCardResult.detection,
                                                  photoResult.detection)
                       THEN 500
                  ELSE 200)
            /\ response.status # 200 => DOMAIN response.body = {"error"})

C23_Witness ==
    /\ pc = "done"
    /\ response # None
    /\ response.status = 500
    /\ idCardResult # None
    /\ photoResult = None

\* C25: in a 200 response match is true exactly when the confidence is at
\* least the threshold, and the message is 'Faces match' exactly when match
\* is true
C25_FieldsConsistent ==
    Answered =>
       /\ response.body.match
            <=> FLeq(Frac(response.body.threshold, 1),
                     response.body.confidence)
       /\ response.body.message \in {"Faces match", "Faces do not match"}
       /\ response.body.message = "Faces match" <=> response.body.match

C25_Witness ==
    /\ Answered
    /\ response.body.confidence = Frac(response.body.threshold, 1)
    /\ response.body.match
    /\ response.body.message = "Faces match"

\* C28: every group score and the feature match score lie in [0, 1], the
\* boost multiplier lies in [1, 1.2], and the similarity before rounding is
\* at least min(100, (1 - distance) * 100)
C28_BoostNeverLowers ==
    Answered =>
       LET d == Distance
           sc == Score
           multiplier == FAdd(Frac(1, 1), FMul(sc, Frac(1, 5)))
       IN  /\ \A g \in Groups :
                LET m == compareFeaturePoints(
                            idCardResult.detection.landmarks[g],
                            photoResult.detection.landmarks[g])
                IN  FLeq(Frac(0, 1), m) /\ FLeq(m, Frac(1, 1))
           /\ FLeq(Frac(0, 1), sc) /\ FLeq(sc, Frac(1, 1))
           /\ FLeq(Frac(1, 1), multiplier) /\ FLeq(multiplier, Frac(6, 5))
           /\ FLeq(FMin(Frac(100, 1), BaseSimilarity(d)),
                   Cap(Boost(BaseSimilarity(d), sc)))

\* C29: the analysis of a 200 response holds at least one sentence; it is
\* never the bare '.'
C29_AnalysisNotEmpty ==
    Answered =>
       /\ response.body.analysis # <<".">>
       /\ Len(Sentences(response.body.analysis)) >= 1

C29_Witness ==
    /\ Answered
    /\ Distance * 10 >= 6 * DScale
    /\ Sentences(response.body.analysis) = <<Variations>>

\* C24: the models are loaded one after the other in the order detection,
\* landmarks, recognition; the server listens only when all three are
\* loaded; a load that fails makes the process exit, after which it never
\* listens; every request is handled by a listening server with all models
C24_ListenAfterModels ==
    /\ [](server = "listening" => loaded = Models)
    /\ [](pc # "idle" => server = "listening" /\ loaded = Models)
    /\ [][loaded' # loaded =>
            /\ server = "starting"
            /\ loaded' = SubSeq(Models, 1, Len(loaded) + 1)]_vars
    /\ [][server = "exited" => server' = "exited"]_vars
    /\ [][(server # "exited" /\ server' = "exited") =>
            server = "starting" /\ loaded # Models]_vars

C24_Witness ==
    /\ server = "listening"
    /\ loaded = Models
    /\ pc = "done"
    /\ Answered

\* C26: the result view never reads the preview of a null image: whenever
\* result is set, every image the view dereferences is set
C26_NoNullPreview == None \notin Dereferenced

\* C27: a submission sets loading, clears result and error and sends the
\* request; when the request settles loading is false again, and the
\* submission has set result or error, never both
C27_SubmitSettles ==
    [][/\ (inflight = None /\ inflight' # None) =>
             /\ referenceImage # None /\ actualImage # None
             /\ loading' /\ matchResult' = None /\ error' = None
       /\ (inflight # None /\ inflight' = None) =>
             /\ ~loading'
             /\ matchResult = None
             /\ \/ matchResult' # None /\ error' = error
                \/ matchResult' = None /\ error' # None
       /\ (inflight # None /\ inflight' # None) =>
             loading' /\ matchResult' = None]_vars

C27_Witness ==
    /\ inflight = None
    /\ ~loading
    /\ matchResult # None
    /\ error = None
    /\ referenceImage # None
    /\ actualImage # None

\* the images of the component and the files being read or sent
Held ==
    {FileOf(component, i) : i \in {referenceImage, actualImage} \ {None}}
       \cup {r.file : r \in reading}
       \cup (IF inflight = None THEN {}
             ELSE {SentFile(component, inflight.referenceImage),
                   SentFile(component, inflight.actualImage)})

\* C30: a file that the validation rejects is never an image of the
\* component and never sent, and the step that shows a rejection message
\* changes nothing but the error
C30_RejectedFileOnlySetsError ==
    /\ [](\A f \in Held : Accepts(component, f))
    /\ [][(error' # error /\ error' \in {TypeMessage(component), SizeMessage})
             => UNCHANGED <<referenceImage, actualImage, matchResult,
                            loading, reading, inflight>>]_vars

C30_Witness ==
    /\ component = "FaceMatching.jsx"
    /\ error = SizeMessage
    /\ referenceImage # None
    /\ actualImage # None
    /\ inflight # None

====
